---- MODULE Spec2Model ----
(***************************************************************************)
(* Brace balance checker of tools/analyze_template.py: a linear scan of    *)
(* the lines of a template with one stack of (keyword, line) entries.      *)
(* Lines are sequences of one-character strings; the two regular           *)
(* expressions of the script are evaluated on them character by character. *)
(***************************************************************************)
EXTENDS Integers, Sequences, FiniteSets, TLC

VARIABLES lines, i, pc, stack, out, visited, nOpen, nPop, trace, run, prevOut, prevTrace

vars == <<lines, i, pc, stack, out, visited, nOpen, nPop, trace, run, prevOut, prevTrace>>

\* Longest document enumerated exhaustively over Corpus.
MaxLines == 4

(***************************************************************************)
(* Character classes of Python's re for the characters that occur.         *)
(***************************************************************************)
\* \w : letters, digits and underscore
WordChars ==
    {"a","b","c","d","e","f","g","h","i","j","k","l","m","n","o","p","q","r","s",
     "t","u","v","w","x","y","z","0","1","2","3","4","5","6","7","8","9","_"}

\* \s : blanks that can remain inside a line after splitlines()
SpaceChars == {" ", "\t"}

\* the alternation (if|for|switch|case|empty|else), in the order the regex tries it
Keywords ==
    << [tok |-> "if",     chars |-> <<"i","f">>],
       [tok |-> "for",    chars |-> <<"f","o","r">>],
       [tok |-> "switch", chars |-> <<"s","w","i","t","c","h">>],
       [tok |-> "case",   chars |-> <<"c","a","s","e">>],
       [tok |-> "empty",  chars |-> <<"e","m","p","t","y">>],
       [tok |-> "else",   chars |-> <<"e","l","s","e">>] >>

Tokens == {Keywords[k].tok : k \in 1..Len(Keywords)}

\* result of re.search when nothing matches (m is None)
NoMatch == "None"

\* the literal w occurs in l starting at position p
HasPrefixAt(l, p, w) ==
    /\ p + Len(w) - 1 <= Len(l)
    /\ \A k \in 1..Len(w) : l[p + k - 1] = w[k]

\* \s* (greedy) from position p: the first position that holds no blank
RECURSIVE SkipSpace(_, _)
SkipSpace(l, p) ==
    IF p <= Len(l) /\ l[p] \in SpaceChars THEN SkipSpace(l, p + 1) ELSE p

\* \b at position p (between l[p-1] and l[p]); outside the line counts as non-word
WordBoundary(l, p) ==
    LET before == p > 1 /\ p - 1 <= Len(l) /\ l[p - 1] \in WordChars
        after  == p <= Len(l) /\ l[p] \in WordChars
    IN  before # after

\* [^\)]* from position p: the first position holding ")" (Len(l)+1 when none)
RECURSIVE SkipNonParen(_, _)
SkipNonParen(l, p) ==
    IF p <= Len(l) /\ l[p] # ")" THEN SkipNonParen(l, p + 1) ELSE p

\* (\([^\)]*\))? from position p: the position after the group, or p when the
\* optional group does not match there
GroupEnd(l, p) ==
    IF p <= Len(l) /\ l[p] = "("
    THEN LET q == SkipNonParen(l, p + 1)
         IN  IF q <= Len(l) THEN q + 1 ELSE p
    ELSE p

\* the keyword k of the alternation matches at p and the rest of the opening
\* regex, \b\s*(\([^\)]*\))?\s*\{ , matches after it
KeywordOpensAt(l, p, k) ==
    LET w == Keywords[k].chars
        e == p + Len(w)
    IN  /\ HasPrefixAt(l, p, w)
        /\ WordBoundary(l, e)
        /\ LET b == SkipSpace(l, GroupEnd(l, SkipSpace(l, e)))
           IN  b <= Len(l) /\ l[b] = "{"

\* the opening regex anchored at position p: m.group(1), or NoMatch
MatchOpenAt(l, p) ==
    IF p <= Len(l) /\ l[p] = "@" /\ \E k \in 1..Len(Keywords) : KeywordOpensAt(l, p + 1, k)
    THEN LET k == CHOOSE k \in 1..Len(Keywords) :
                      /\ KeywordOpensAt(l, p + 1, k)
                      /\ \A j \in 1..(k - 1) : ~KeywordOpensAt(l, p + 1, j)
         IN  Keywords[k].tok
    ELSE NoMatch

\* re.search of the opening regex: group(1) of the leftmost match, or NoMatch
SearchOpen(l) ==
    IF \E p \in 1..Len(l) : MatchOpenAt(l, p) # NoMatch
    THEN LET p == CHOOSE p \in 1..Len(l) :
                      /\ MatchOpenAt(l, p) # NoMatch
                      /\ \A q \in 1..(p - 1) : MatchOpenAt(l, q) = NoMatch
         IN  MatchOpenAt(l, p)
    ELSE NoMatch

\* re.search of ^\s*\}\s*(?:@else|@empty|@case)? : ^ anchors at the start of
\* the line, and the tail after the brace is optional, so it never fails
SearchClose(l) ==
    LET p == SkipSpace(l, 1)
    IN  p <= Len(l) /\ l[p] = "}"

(***************************************************************************)
(* Documents.                                                              *)
(***************************************************************************)
LIf       == <<"@","i","f"," ","(","x",")"," ","{">>
LForIf    == <<"@","f","o","r"," ","(","a",")"," ","{"," ","@","i","f"," ","(","b",")"," ","{">>
LClose    == <<"}">>
LElse     == <<"}"," ","@","e","l","s","e"," ","{">>
LCaseA    == <<"@","c","a","s","e"," ","'","a","'"," ","{">>
LText     == <<"t","e","x","t">>
LClose2   == <<" "," ","}","}">>
LSwitch   == <<"@","s","w","i","t","c","h"," ","(","x",")"," ","{">>
LCloseCase == <<"}"," ","@","c","a","s","e">>
LCloseSp  == <<"}"," ">>
LIndText  == <<" "," ","t","e","x","t">>
LElseIf   == <<"@","e","l","s","e"," ","i","f"," ","(","y",")"," ","{">>
LIfx      == <<"@","i","f","x"," ","{">>
LIfCall   == <<"@","i","f"," ","(","f","(","x",")",")"," ","{">>
LForSw    == <<"x"," ","@","f","o","r"," ","(","a",")"," ","@","s","w","i","t","c","h","(","b",")","{">>
LMidClose == <<"x"," ","}">>
LEmpty    == <<"@","e","m","p","t","y","{">>

Corpus == {LIf, LForIf, LClose, LElse, LCaseA, LText, LClose2}

\* the five concrete scenarios of the documentation
Scenarios ==
    { <<LIf, LIndText, LClose>>,
      <<LIf, LIndText>>,
      <<LClose>>,
      <<LIf, LElse, LClose>>,
      <<LSwitch, LCaseA, LText, LCloseCase, LCloseSp>> }

\* one-line documents that exercise the corners of the two patterns
EdgeDocuments ==
    { <<LElseIf>>, <<LIfx>>, <<LIfCall>>, <<LForSw>>, <<LMidClose>>, <<LEmpty>> }

Documents ==
    (UNION {[1..n -> Corpus] : n \in 0..MaxLines}) \cup Scenarios \cup EdgeDocuments

\* every line that occurs in some document
DocumentLines == UNION {{d[k] : k \in 1..Len(d)} : d \in Documents}

\* the two searches, tabulated once over the lines that occur
OpenSearch == [l \in DocumentLines |-> SearchOpen(l)]

\* a closing pattern that lost its ^\s* anchor: a brace anywhere on the line
CloseSearchUnanchored ==
    [l \in DocumentLines |-> \E p \in 1..Len(l) : l[p] = "}"]

CloseSearch == [l \in DocumentLines |-> SearchClose(l)]

(***************************************************************************)
(* Output lines, as the argument tuples of print.                          *)
(***************************************************************************)
\* the message with a 0-based line number (enumerate without its start)
UnmatchedZeroBased(n) == <<"Unmatched closing brace at", n - 1>>

Unmatched(n) == <<"Unmatched closing brace at", n>>
UnclosedHeader == <<"Unclosed control blocks:">>
OpenedAt(e) == <<e[1], "opened at", e[2]>>
AllClosed == <<"All control blocks closed">>

\* a push per directive found on the line: two entries for one line
PushTwice(s, tok, n) == Append(Append(s, <<tok, n>>), <<tok, n>>)

\* a push that records a 0-based line number
PushZeroBased(s, tok, n) == Append(s, <<tok, n - 1>>)

\* stack.append((tok, i))
Push(s, tok, n) == Append(s, <<tok, n>>)

\* a pop that empties the stack instead of removing one entry
PopClear(s) == <<>>

\* a pop at the wrong end, list.pop(0)
PopBottom(s) == SubSeq(s, 2, Len(s))

\* stack.pop()
Pop(s) == SubSeq(s, 1, Len(s) - 1)

\* a report whose all-closed message is not guarded by the else branch
FinalReportNoElse(s) ==
    IF s # <<>>
    THEN <<UnclosedHeader>> \o [k \in 1..Len(s) |-> OpenedAt(s[k])] \o <<AllClosed>>
    ELSE <<AllClosed>>

\* a report that lists the stack from the top down
FinalReportTopFirst(s) ==
    IF s # <<>>
    THEN <<UnclosedHeader>> \o [k \in 1..Len(s) |-> OpenedAt(s[Len(s) + 1 - k])]
    ELSE <<AllClosed>>

\* a report without its else branch: nothing is printed for an empty stack
FinalReportSilent(s) ==
    IF s # <<>>
    THEN <<UnclosedHeader>> \o [k \in 1..Len(s) |-> OpenedAt(s[k])]
    ELSE <<>>

\* the final report: lines 22-27
FinalReport(s) ==
    IF s # <<>>
    THEN <<UnclosedHeader>> \o [k \in 1..Len(s) |-> OpenedAt(s[k])]
    ELSE <<AllClosed>>

(***************************************************************************)
(* The scan.                                                               *)
(***************************************************************************)
Init ==
    /\ lines = <<>>
    /\ i = 0
    /\ pc = "read"
    /\ stack = <<>>
    /\ out = <<>>
    /\ visited = <<>>
    /\ nOpen = 0
    /\ nPop = 0
    /\ trace = <<>>
    /\ run = 1
    /\ prevOut = <<>>
    /\ prevTrace = <<>>

\* s = open(p).read(); lines = s.splitlines(); stack = []
ReadLines ==
    /\ pc = "read"
    /\ lines' \in Documents
    /\ pc' = "for"
    /\ UNCHANGED <<i, stack, out, visited, nOpen, nPop, trace, run, prevOut, prevTrace>>

\* a loop that gives up after the first unmatched closer, without the report
ForStepExitOnUnmatched ==
    /\ pc = "for"
    /\ IF out # <<>>
       THEN /\ pc' = "done"
            /\ UNCHANGED <<i, visited>>
       ELSE IF i < Len(lines)
            THEN /\ i' = i + 1
                 /\ visited' = Append(visited, i + 1)
                 /\ pc' = "open"
            ELSE /\ pc' = "report"
                 /\ UNCHANGED <<i, visited>>
    /\ UNCHANGED <<lines, stack, out, nOpen, nPop, trace, run, prevOut, prevTrace>>

\* for i,l in enumerate(lines,1): take the next line, or leave the loop
ForStep ==
    /\ pc = "for"
    /\ IF i < Len(lines)
       THEN /\ i' = i + 1
            /\ visited' = Append(visited, i + 1)
            /\ pc' = "open"
       ELSE /\ pc' = "report"
            /\ UNCHANGED <<i, visited>>
    /\ UNCHANGED <<lines, stack, out, nOpen, nPop, trace, run, prevOut, prevTrace>>

\* an open check whose close check is an elif: a line that opens is not
\* looked at for a closing brace
OpenCheckElif ==
    /\ pc = "open"
    /\ LET m == OpenSearch[lines[i]]
       IN  IF m # NoMatch
           THEN /\ stack' = Push(stack, m, i)
                /\ nOpen' = nOpen + 1
                /\ trace' = Append(trace, stack')
                /\ pc' = "for"
           ELSE /\ pc' = "close"
                /\ UNCHANGED <<stack, nOpen, trace>>
    /\ UNCHANGED <<lines, i, out, visited, nPop, run, prevOut, prevTrace>>

\* m = re.search(<opening pattern>, l); if m: stack.append((m.group(1), i))
OpenCheck ==
    /\ pc = "open"
    /\ LET m == OpenSearch[lines[i]]
       IN  IF m # NoMatch
           THEN /\ stack' = Push(stack, m, i)
                /\ nOpen' = nOpen + 1
           ELSE UNCHANGED <<stack, nOpen>>
    /\ pc' = "close"
    /\ UNCHANGED <<lines, i, out, visited, nPop, trace, run, prevOut, prevTrace>>

\* a close check over an unordered container: some entry is removed, not the last
CloseCheckAnyEntry ==
    /\ pc = "close"
    /\ IF CloseSearch[lines[i]]
       THEN IF stack # <<>>
            THEN /\ \E k \in 1..Len(stack) :
                        stack' = SubSeq(stack, 1, k - 1) \o SubSeq(stack, k + 1, Len(stack))
                 /\ nPop' = nPop + 1
                 /\ UNCHANGED out
            ELSE /\ out' = Append(out, Unmatched(i))
                 /\ UNCHANGED <<stack, nPop>>
       ELSE UNCHANGED <<stack, nPop, out>>
    /\ trace' = Append(trace, stack')
    /\ pc' = "for"
    /\ UNCHANGED <<lines, i, visited, nOpen, run, prevOut, prevTrace>>

\* if re.search(<closing pattern>, l): pop, or report an unmatched closer
CloseCheck ==
    /\ pc = "close"
    /\ IF CloseSearch[lines[i]]
       THEN IF stack # <<>>
            THEN /\ stack' = Pop(stack)
                 /\ nPop' = nPop + 1
                 /\ UNCHANGED out
            ELSE /\ out' = Append(out, Unmatched(i))
                 /\ UNCHANGED <<stack, nPop>>
       ELSE UNCHANGED <<stack, nPop, out>>
    /\ trace' = Append(trace, stack')
    /\ pc' = "for"
    /\ UNCHANGED <<lines, i, visited, nOpen, run, prevOut, prevTrace>>

\* after the loop: the unclosed listing or the all-closed message
Report ==
    /\ pc = "report"
    /\ out' = out \o FinalReport(stack)
    /\ pc' = "done"
    /\ UNCHANGED <<lines, i, stack, visited, nOpen, nPop, trace, run, prevOut, prevTrace>>

Next == ReadLines \/ ForStep \/ OpenCheck \/ CloseCheck \/ Report

Spec == Init /\ [][Next]_vars

\* a second run of the script on the same, unchanged document: the first run's
\* output and stack history are kept aside, everything else starts afresh
Rerun ==
    /\ pc = "done"
    /\ run = 1
    /\ run' = 2
    /\ prevOut' = out
    /\ prevTrace' = trace
    /\ i' = 0
    /\ stack' = <<>>
    /\ out' = <<>>
    /\ visited' = <<>>
    /\ nOpen' = 0
    /\ nPop' = 0
    /\ trace' = <<>>
    /\ pc' = "for"
    /\ UNCHANGED lines

NextTwice == Next \/ Rerun

TwiceSpec == Init /\ [][NextTwice]_vars

\* the script is one sequential thread: it runs until it has printed its report
LiveSpec == Spec /\ WF_vars(Next)

(***************************************************************************)
(* Vocabulary of the properties.                                           *)
(***************************************************************************)
Done == pc = "done"

IsUnmatchedMsg(msg) == msg[1] = "Unmatched closing brace at"

UnmatchedPositions == {k \in 1..Len(out) : IsUnmatchedMsg(out[k])}

Emitted(msg) == \E k \in 1..Len(out) : out[k] = msg

\* line k of the document matches the opening / the closing pattern
IsOpen(k) == SearchOpen(lines[k]) # NoMatch
IsClose(k) == SearchClose(lines[k])

NumOpen(k) == Cardinality({j \in 1..k : IsOpen(j)})
NumClose(k) == Cardinality({j \in 1..k : IsClose(j)})

AllVisited == visited = [k \in 1..Len(lines) |-> k]

\* as many opening as closing lines, and no prefix with more closers than openers
WellNested ==
    /\ NumOpen(Len(lines)) = NumClose(Len(lines))
    /\ \A k \in 0..Len(lines) : NumClose(k) <= NumOpen(k)

(***************************************************************************)
(* C1                                                                      *)
(***************************************************************************)
\* C1 as stated: "All control blocks closed" is emitted only if the stack is
\* empty after the last line and no "Unmatched closing brace" message was
\* emitted during the scan.
C1_AllClosedOnlyIfNoUnmatched ==
    Emitted(AllClosed) => (Done /\ stack = <<>> /\ UnmatchedPositions = {})

\* C1 as amended: "All control blocks closed" is emitted only at the end of the
\* scan and only if the stack is empty after the last line; it is emitted then
\* whether or not an "Unmatched closing brace" message was emitted before.
C1_AllClosedOnlyIfStackEmpty ==
    /\ Emitted(AllClosed) => (Done /\ stack = <<>>)
    /\ (Done /\ stack = <<>> /\ UnmatchedPositions # {}) => Emitted(AllClosed)

C1_Witness ==
    Done /\ stack = <<>> /\ UnmatchedPositions # {} /\ Emitted(AllClosed) /\ Len(lines) >= 2

(***************************************************************************)
(* C2                                                                      *)
(***************************************************************************)
\* the close check finds a closing line while the stack is empty
CloseOnEmpty == pc = "close" /\ IsClose(i) /\ stack = <<>>

\* C2: a closing match on an empty stack appends exactly one "Unmatched closing
\* brace at i" with the 1-based number of that line, leaves the stack empty and
\* goes on with the loop; from there the scan visits every line and reaches the
\* report, which ends with "All control blocks closed" when the stack is empty;
\* the document "}" prints exactly the two messages.
C2_UnmatchedCloserContinues ==
    /\ [][CloseOnEmpty =>
            /\ out' = Append(out, <<"Unmatched closing brace at", visited[Len(visited)]>>)
            /\ stack' = <<>>
            /\ pc' = "for"
            /\ i' = i]_vars
    /\ [](CloseOnEmpty =>
            <>(/\ Done
               /\ AllVisited
               /\ (stack = <<>> => out[Len(out)] = AllClosed)))
    /\ []((Done /\ lines = <<LClose>>) =>
            out = << <<"Unmatched closing brace at", 1>>, AllClosed >>)

\* an unmatched closer that was not on the last line, after the whole scan
C2_Witness ==
    /\ Done
    /\ AllVisited
    /\ \E k \in UnmatchedPositions : out[k][2] < Len(lines)
    /\ out[Len(out)] = AllClosed

(***************************************************************************)
(* C3                                                                      *)
(***************************************************************************)
\* C3: a document with as many opening as closing lines, no prefix of which
\* has more closing than opening lines, prints exactly "All control blocks
\* closed" and nothing else.
C3_WellNestedAllClosed ==
    (Done /\ WellNested) => out = <<AllClosed>>

\* two blocks open at once, then both closed
C3_Witness ==
    /\ Done
    /\ WellNested
    /\ NumOpen(Len(lines)) >= 2
    /\ \E k \in 1..Len(trace) : Len(trace[k]) >= 2

(***************************************************************************)
(* C4                                                                      *)
(***************************************************************************)
\* C4: with a non-empty stack after the last line the output ends with the
\* header "Unclosed control blocks:", printed once, followed by one line
\* "<keyword> opened at <line>" per stack entry from the bottom of the stack to
\* the top, each with the keyword and line number of the line that pushed it,
\* earlier lines first; "All control blocks closed" is not printed.
C4_UnclosedListing ==
    (Done /\ stack # <<>>) =>
        LET h == Len(out) - Len(stack)
        IN  /\ h >= 1
            /\ out[h] = <<"Unclosed control blocks:">>
            /\ \A k \in 1..(h - 1) : IsUnmatchedMsg(out[k])
            /\ \A k \in 1..Len(stack) :
                  /\ out[h + k] = <<stack[k][1], "opened at", stack[k][2]>>
                  /\ stack[k][2] \in 1..Len(lines)
                  /\ SearchOpen(lines[stack[k][2]]) = stack[k][1]
            /\ \A k \in 1..(Len(stack) - 1) : stack[k][2] < stack[k + 1][2]
            /\ ~Emitted(AllClosed)

\* two entries with different keywords are left open
C4_Witness ==
    /\ Done
    /\ Len(stack) >= 2
    /\ stack[1][1] # stack[2][1]
    /\ UnmatchedPositions # {}

(***************************************************************************)
(* C5                                                                      *)
(***************************************************************************)
\* The pairing the property speaks of, over the first k lines: a closing line
\* takes the most recent unpaired opening line among the strictly earlier
\* lines; open lists the opening lines still unpaired, stray counts the
\* closing lines that found none.
RECURSIVE Pairing(_)
Pairing(k) ==
    IF k = 0
    THEN [open |-> <<>>, stray |-> 0]
    ELSE LET prev == Pairing(k - 1)
             closed == IF ~IsClose(k) THEN prev
                       ELSE IF prev.open # <<>>
                            THEN [prev EXCEPT !.open = SubSeq(@, 1, Len(@) - 1)]
                            ELSE [prev EXCEPT !.stray = @ + 1]
         IN  IF IsOpen(k) THEN [closed EXCEPT !.open = Append(@, k)] ELSE closed

\* C5: when that pairing leaves exactly one opening line unpaired and no
\* closing line unpaired, the output ends with the header followed by exactly
\* one line, which names the keyword and the line number of that opening line.
C5_UnpairedOpenerListed ==
    Done =>
        LET p == Pairing(Len(lines))
        IN  (Len(p.open) = 1 /\ p.stray = 0) =>
                /\ Len(out) >= 2
                /\ out[Len(out) - 1] = <<"Unclosed control blocks:">>
                /\ out[Len(out)] =
                       <<SearchOpen(lines[p.open[1]]), "opened at", p.open[1]>>

(***************************************************************************)
(* C6                                                                      *)
(***************************************************************************)
Scenario5 == <<LSwitch, LCaseA, LText, LCloseCase, LCloseSp>>

\* C6: in the five-line @switch document the line "@case 'a' {" pushes
\* (case, 2) on top of (switch, 1), and the complete output is "Unclosed
\* control blocks:" followed by "switch opened at 1".
C6_CaseLabelOpens ==
    lines = Scenario5 =>
        /\ (pc = "close" /\ i = 2) => stack = << <<"switch", 1>>, <<"case", 2>> >>
        /\ Done => out = << <<"Unclosed control blocks:">>, <<"switch", "opened at", 1>> >>

(***************************************************************************)
(* C7                                                                      *)
(***************************************************************************)
IsPrefix(a, b) == Len(a) <= Len(b) /\ a = SubSeq(b, 1, Len(a))

C8_ScanTerminatesWithReport ==
    /\ <>Done
    /\ [](Done =>
            /\ AllVisited
            /\ i = Len(lines)
            /\ (Emitted(AllClosed) \/ Emitted(UnclosedHeader)))

\* a run with an unmatched closer and two unclosed blocks has ended
C8_Witness ==
    /\ Done
    /\ AllVisited
    /\ UnmatchedPositions # {}
    /\ Len(stack) >= 2
    /\ Emitted(UnclosedHeader)

(***************************************************************************)
(* C9                                                                      *)
(***************************************************************************)
\* C9: after every processed line the stack size is the number of lines so
\* far that matched the opening pattern minus the number of pops so far, which
\* is never negative; a closing match on an empty stack changes neither the
\* size nor the number of pops.
C9_StackSizeBalance ==
    /\ []((pc \in {"for", "report", "done"}) =>
            /\ nOpen = NumOpen(i)
            /\ nPop <= NumClose(i)
            /\ NumOpen(i) - nPop >= 0
            /\ Len(stack) = NumOpen(i) - nPop)
    /\ [][CloseOnEmpty => (Len(stack') = Len(stack) /\ nPop' = nPop)]_vars

\* pushes, pops and a closer on the empty stack have all happened
C9_Witness ==
    /\ pc = "for"
    /\ nPop >= 1
    /\ Len(stack) >= 1
    /\ UnmatchedPositions # {}
    /\ nPop < NumClose(i)

(***************************************************************************)
(* C10                                                                     *)
(***************************************************************************)
\* the close check finds a closing line while the stack holds an entry
CloseOnNonEmpty == pc = "close" /\ IsClose(i) /\ stack # <<>>

\* C10: a closing match on a non-empty stack removes the top entry and only
\* it, the entries below keep their keyword, line number and order, and
\* nothing is printed.
C10_PopRemovesTopOnly ==
    [][CloseOnNonEmpty =>
          /\ Len(stack') = Len(stack) - 1
          /\ \A k \in 1..(Len(stack) - 1) : stack'[k] = stack[k]
          /\ out' = out]_vars

\* a plain closing line has just popped a "for" entry off a stack that keeps
\* an entry of another keyword below it
C10_Witness ==
    /\ pc = "for"
    /\ i >= 2
    /\ IsClose(i) /\ ~IsOpen(i)
    /\ Len(trace[i - 1]) >= 2
    /\ trace[i - 1][Len(trace[i - 1])][1] = "for"
    /\ trace[i - 1][Len(trace[i - 1]) - 1][1] # "for"
    /\ stack = SubSeq(trace[i - 1], 1, Len(trace[i - 1]) - 1)

(***************************************************************************)
(* C11                                                                     *)
(***************************************************************************)
\* the stack before line k was processed
StackBefore(k) == IF k = 1 THEN <<>> ELSE trace[k - 1]

\* line k matches both patterns
IsBoth(k) == IsOpen(k) /\ IsClose(k)

\* C11: on a line that matches both patterns the push comes first and the pop
\* second, so the close check finds the entry of that very line on top; after
\* the line the stack is the stack before it, no "Unmatched closing brace" is
\* printed for the line, even on a stack that was empty; and the document
\* "@if (x) {" / "} @else {" / "}" ends with an empty stack and prints
\* only "All control blocks closed".
C11_BothPushThenPop ==
    /\ (pc = "close" /\ IsBoth(i)) =>
            stack = Append(StackBefore(i), <<SearchOpen(lines[i]), i>>)
    /\ (pc \in {"for", "report", "done"}) =>
            \A k \in 1..i :
                IsBoth(k) =>
                    /\ trace[k] = StackBefore(k)
                    /\ ~Emitted(<<"Unmatched closing brace at", k>>)
    /\ (Done /\ lines = <<LIf, LElse, LClose>>) =>
            (stack = <<>> /\ out = <<AllClosed>>)

\* a both-matching line was met on the empty stack and another on a stack that
\* held an entry of an earlier line
C11_Witness ==
    /\ Done
    /\ Len(lines) >= 2
    /\ IsBoth(1)
    /\ \E k \in 2..Len(lines) : IsBoth(k) /\ StackBefore(k) # <<>>

(***************************************************************************)
(* C12                                                                     *)
(***************************************************************************)
\* C12: while a line that matches neither pattern is processed the stack and
\* the output stay as they are; and once the lines are read no step of the
\* scan changes them.
C12_UnmatchedLineIsInert ==
    /\ [][(pc \in {"open", "close"} /\ ~IsOpen(i) /\ ~IsClose(i)) =>
              (stack' = stack /\ out' = out)]_vars
    /\ [][pc # "read" => lines' = lines]_vars

\* a "@case 'a' {" line, which neither pattern recognises, has been passed
\* with an entry on the stack
C12_Witness ==
    /\ pc = "for"
    /\ i >= 2
    /\ lines[i] = LCaseA
    /\ ~IsOpen(i) /\ ~IsClose(i)
    /\ stack # <<>>
    /\ stack = trace[i - 1]

(***************************************************************************)
(* C13                                                                     *)
(***************************************************************************)
\* C13: the open check of a line pushes at most one entry and prints nothing;
\* the close check pops one entry, or prints one "Unmatched closing brace"
\* message, or does neither, never both; so after each line the stack size
\* differs by at most one from the size before it and is at most the number of
\* lines processed.
C13_OneEventPerLine ==
    /\ [][pc = "open" =>
              /\ (stack' = stack \/ (Len(stack') = Len(stack) + 1
                                      /\ SubSeq(stack', 1, Len(stack)) = stack))
              /\ out' = out]_vars
    /\ [][pc = "close" =>
              \/ stack' = stack /\ out' = out
              \/ Len(stack') = Len(stack) - 1 /\ out' = out
              \/ stack' = stack /\ Len(out') = Len(out) + 1
                                /\ IsUnmatchedMsg(out'[Len(out')])]_vars
    /\ []((pc \in {"for", "report", "done"}) =>
              /\ Len(stack) <= i
              /\ Len(trace) = i
              /\ \A k \in 1..i :
                    /\ Len(trace[k]) - Len(StackBefore(k)) \in {-1, 0, 1}
                    /\ Len(trace[k]) <= k)

\* a line with two directive openers pushed one entry, and a line with two
\* closing braces popped one entry off a stack of two
C13_Witness ==
    /\ pc = "for"
    /\ \E k \in 1..i : /\ lines[k] = LForIf
                       /\ Len(trace[k]) = Len(StackBefore(k)) + 1
    /\ \E k \in 2..i : /\ lines[k] = LClose2
                       /\ Len(StackBefore(k)) = 2
                       /\ Len(trace[k]) = 1

(***************************************************************************)
(* C14                                                                     *)
(***************************************************************************)
\* positions of the two end-of-scan messages in the output
EndPositions == {k \in 1..Len(out) : out[k] = UnclosedHeader \/ out[k] = AllClosed}

\* C14: a finished run has printed exactly one end-of-scan message, the header
\* "Unclosed control blocks:" or "All control blocks closed", exactly once, and
\* an unfinished run none; every "Unmatched closing brace" message stands
\* before it, and these messages carry strictly increasing line numbers.
C14_OneEndMessage ==
    /\ Done => Cardinality(EndPositions) = 1
    /\ ~Done => EndPositions = {}
    /\ \A u \in UnmatchedPositions : \A e \in EndPositions : u < e
    /\ \A u, v \in UnmatchedPositions : u < v => out[u][2] < out[v][2]

\* a finished run with two unmatched closers and an unclosed block
C14_Witness ==
    /\ Done
    /\ Cardinality(UnmatchedPositions) >= 2
    /\ Emitted(UnclosedHeader)

(***************************************************************************)
(* C15                                                                     *)
(***************************************************************************)
\* C15: at every point of the scan the line numbers on the stack increase
\* strictly from the bottom to the top (so no two entries share one), each is
\* between 1 and the number of the current line, and every keyword is one of
\* if, for, switch, case, empty, else.
C15_StackWellFormed ==
    /\ \A k \in 1..Len(stack) :
          /\ stack[k][1] \in {"if", "for", "switch", "case", "empty", "else"}
          /\ stack[k][2] >= 1
          /\ stack[k][2] <= i
    /\ \A k \in 1..(Len(stack) - 1) : stack[k][2] < stack[k + 1][2]

\* three entries with different keywords are on the stack
C15_Witness ==
    /\ Len(stack) >= 3
    /\ Cardinality({stack[k][1] : k \in 1..Len(stack)}) >= 3

====
